---------------------------- MODULE Spec2Model ----------------------------
(***************************************************************************)
(* A model of dsipy's trust/signing core: canonical strings, Ed25519       *)
(* signing and verification (shared/security.py), the vCard parser         *)
(* (shared/vcard.py) and the RSS feed signer (apps/feeds/lib/feed.py).     *)
(*                                                                         *)
(* Python values are modelled with their types kept apart:                 *)
(*   str       a sequence of characters, each a one-character string       *)
(*             (a character outside ASCII is named by its code point,      *)
(*             "U+00E9");                                                  *)
(*   bytes     a sequence of integers 0..255;                              *)
(*   datetime  a record of year, month, day, hour, minute, second;         *)
(*   an argument whose Python type varies is tagged: PyStr(s), PyDate(d),  *)
(*   PyNone.                                                               *)
(* One run of the program is one call (or a call and the follow-up made    *)
(* on its result); `call` holds the call, `ret` its outcome.               *)
(***************************************************************************)
EXTENDS Integers, Sequences, FiniteSets, TLC

VARIABLES call, ret

vars == <<call, ret>>

(***************************************************************************)
(* Bounds of the model.                                                    *)
(***************************************************************************)
\* number of keypairs generated
NumKeys == 2
\* most items in a feed
MaxItems == 2
\* most lines in a vCard text
MaxLines == 2

(***************************************************************************)
(* Python str and bytes.                                                   *)
(***************************************************************************)
\* the printable ASCII characters, U+0020 .. U+007E, in code point order
PrintableAscii ==
  << " ", "!", "\"", "#", "$", "%", "&", "'", "(", ")", "*", "+", ",", "-", ".", "/",
     "0", "1", "2", "3", "4", "5", "6", "7", "8", "9", ":", ";", "<", "=", ">", "?",
     "@", "A", "B", "C", "D", "E", "F", "G", "H", "I", "J", "K", "L", "M", "N", "O",
     "P", "Q", "R", "S", "T", "U", "V", "W", "X", "Y", "Z", "[", "\\", "]", "^", "_",
     "U+0060", "a", "b", "c", "d", "e", "f", "g", "h", "i", "j", "k", "l", "m", "n", "o",
     "p", "q", "r", "s", "t", "u", "v", "w", "x", "y", "z", "{", "|", "}", "~" >>

\* the position of character c in the sequence s (c occurs in s)
IndexOf(c, s) == CHOOSE i \in 1..Len(s) : s[i] = c

\* the Unicode code point of a character
CodePoint(c) ==
  CASE c = "\t" -> 9
    [] c = "\n" -> 10
    [] c = "\r" -> 13
    [] c = "U+00E9" -> 233
    [] c = "U+20AC" -> 8364
    [] OTHER -> 31 + IndexOf(c, PrintableAscii)

\* the UTF-8 bytes of one code point
Utf8Char(cp) ==
  IF cp < 128 THEN << cp >>
  ELSE IF cp < 2048 THEN << 192 + (cp \div 64), 128 + (cp % 64) >>
  ELSE << 224 + (cp \div 4096), 128 + ((cp \div 64) % 64), 128 + (cp % 64) >>

RECURSIVE Utf8Encode(_)
\* str.encode("utf-8")
Utf8Encode(s) ==
  IF s = << >> THEN << >>
  ELSE Utf8Char(CodePoint(Head(s))) \o Utf8Encode(Tail(s))

HexDigits ==
  << "0", "1", "2", "3", "4", "5", "6", "7", "8", "9", "a", "b", "c", "d", "e", "f" >>

UpperHexDigits == << "A", "B", "C", "D", "E", "F" >>

IsHexDigit(c) ==
  \/ \E i \in 1..Len(HexDigits) : HexDigits[i] = c
  \/ \E i \in 1..Len(UpperHexDigits) : UpperHexDigits[i] = c

HexValue(c) ==
  IF \E i \in 1..Len(HexDigits) : HexDigits[i] = c
  THEN IndexOf(c, HexDigits) - 1
  ELSE IndexOf(c, UpperHexDigits) + 9

RECURSIVE BytesHexLowNibbleFirst(_)
\* a faulty bytes.hex(): the two digits of a byte the wrong way round
BytesHexLowNibbleFirst(b) ==
  IF b = << >> THEN << >>
  ELSE << HexDigits[(Head(b) % 16) + 1], HexDigits[(Head(b) \div 16) + 1] >>
         \o BytesHexLowNibbleFirst(Tail(b))

RECURSIVE BytesHex(_)
\* bytes.hex(): two lower-case hex digits per byte
BytesHex(b) ==
  IF b = << >> THEN << >>
  ELSE << HexDigits[(Head(b) \div 16) + 1], HexDigits[(Head(b) % 16) + 1] >>
         \o BytesHex(Tail(b))

IsSpace(c) == c \in {" ", "\t", "\n", "\r"}

\* the outcome of a call: the value returned, or the exception raised
Return(v) == [kind |-> "return", value |-> v]

Raise(e) == [kind |-> "raise", exc |-> e]

RECURSIVE IsHexText(_)
\* what bytes.fromhex() accepts: pairs of hex digits, white space between pairs
IsHexText(s) ==
  IF s = << >> THEN TRUE
  ELSE IF IsSpace(Head(s)) THEN IsHexText(Tail(s))
  ELSE /\ Len(s) >= 2
       /\ IsHexDigit(s[1])
       /\ IsHexDigit(s[2])
       /\ IsHexText(Tail(Tail(s)))

RECURSIVE HexBytes(_)
\* the bytes of an accepted hex text
HexBytes(s) ==
  IF s = << >> THEN << >>
  ELSE IF IsSpace(Head(s)) THEN HexBytes(Tail(s))
  ELSE << 16 * HexValue(s[1]) + HexValue(s[2]) >> \o HexBytes(Tail(Tail(s)))

\* bytes.fromhex()
BytesFromHex(s) ==
  IF IsHexText(s) THEN Return(HexBytes(s)) ELSE Raise("ValueError")

(***************************************************************************)
(* Python values whose type varies, and their text inside an f-string.     *)
(***************************************************************************)
PyStr(s) == [t |-> "str", v |-> s]

PyDate(d) == [t |-> "datetime", v |-> d]

PyNone == [t |-> "None"]

DecDigits == << "0", "1", "2", "3", "4", "5", "6", "7", "8", "9" >>

\* "%02d" % n, for 0 <= n <= 99
TwoDigits(n) == << DecDigits[(n \div 10) + 1], DecDigits[(n % 10) + 1] >>

\* "%04d" % n, for 0 <= n <= 9999
FourDigits(n) == TwoDigits(n \div 100) \o TwoDigits(n % 100)

\* str(datetime) of a naive datetime without microseconds:
\* "YYYY-MM-DD HH:MM:SS"
DatetimeStr(d) ==
  FourDigits(d.year) \o << "-" >> \o TwoDigits(d.month) \o << "-" >> \o TwoDigits(d.day)
    \o << " " >> \o TwoDigits(d.hour) \o << ":" >> \o TwoDigits(d.minute)
    \o << ":" >> \o TwoDigits(d.second)

RECURSIVE NatText(_)
\* the decimal digits of a natural number
NatText(n) ==
  IF n < 10 THEN << DecDigits[n + 1] >>
  ELSE NatText(n \div 10) \o << DecDigits[(n % 10) + 1] >>

\* a faulty str(n): the sign is lost
IntTextUnsigned(n) == NatText(IF n < 0 THEN 0 - n ELSE n)

\* str(n) of an int
IntText(n) == IF n < 0 THEN << "-" >> \o NatText(0 - n) ELSE NatText(n)

\* the text "{x}" of a value inside an f-string
PyFormat(x) ==
  CASE x.t = "str" -> x.v
    [] x.t = "datetime" -> DatetimeStr(x.v)
    [] x.t = "int" -> IntText(x.v)
    [] x.t = "bool" -> IF x.b THEN << "T", "r", "u", "e" >> ELSE << "F", "a", "l", "s", "e" >>
    [] x.t = "None" -> << "N", "o", "n", "e" >>

(***************************************************************************)
(* Ed25519 as the cryptography library provides it, idealised: a           *)
(* signature is SigLen bytes fixed by the signing key and the message,     *)
(* and no other key or message has the same signature.  Keypair i is       *)
(* named by its seed i; messages are at most SigLen - 2 bytes long.        *)
(***************************************************************************)
SigLen == 64

Seeds == 1..NumKeys

Ed25519PrivateKey(i) == [type |-> "Ed25519PrivateKey", seed |-> i]

Ed25519PublicKey(i) == [type |-> "Ed25519PublicKey", seed |-> i]

\* private_key.public_key()
public_key(private_key) == Ed25519PublicKey(private_key.seed)

\* private_key.sign(data)
Ed25519Sign(private_key, data) ==
  LET body == << private_key.seed, Len(data) >> \o data
  IN  body \o [i \in 1..(SigLen - Len(body)) |-> 0]

\* public_key.verify(signature, data): returns None, or raises
\* InvalidSignature
Ed25519Verify(pub, signature, data) ==
  IF /\ Len(signature) = SigLen
     /\ signature = Ed25519Sign(Ed25519PrivateKey(pub.seed), data)
  THEN Return(PyNone)
  ELSE Raise("InvalidSignature")

(***************************************************************************)
(* shared/security.py: canonical strings, signing, verification.           *)
(***************************************************************************)
\* a faulty canonical string: a line break after the identifier
canonical_endorsement_string_newline(endorsee_key_b64) ==
  Utf8Encode(<< "e", "n", "d", "o", "r", "s", "e", ":" >> \o PyFormat(endorsee_key_b64) \o << "\n" >>)

canonical_endorsement_string(endorsee_key_b64) ==
  Utf8Encode(<< "e", "n", "d", "o", "r", "s", "e", ":" >> \o PyFormat(endorsee_key_b64))

sign_endorsement(private_key, endorsee_key_b64) ==
  LET canonical == canonical_endorsement_string(endorsee_key_b64)
      sig == Ed25519Sign(private_key, canonical)
  IN  BytesHex(sig)

\* the body of the try block of the two verify functions: the outcome of
\* public_key.verify(bytes.fromhex(signature_hex), canonical)
TryVerify(pub, signature_hex, canonical) ==
  LET raw == BytesFromHex(signature_hex)
  IN  IF raw.kind = "raise" THEN raw ELSE Ed25519Verify(pub, raw.value, canonical)

\* a faulty handler: True on both paths
ReturnTrueAlways(outcome) == Return(TRUE)

\* no handler: the exception reaches the caller
ReturnTrueNoExcept(outcome) ==
  IF outcome.kind = "raise" THEN outcome ELSE Return(TRUE)

\* try: ...; return True / except Exception: return False
ReturnTrueExceptFalse(outcome) ==
  IF outcome.kind = "raise" THEN Return(FALSE) ELSE Return(TRUE)

verify_endorsement_signature(pub, endorsee_key_b64, signature_hex) ==
  LET canonical == canonical_endorsement_string(endorsee_key_b64)
  IN  ReturnTrueExceptFalse(TryVerify(pub, signature_hex, canonical))

\* a faulty canonical string: title before date
canonical_feed_string_title_first(pub_date, title, description_plain) ==
  Utf8Encode(PyFormat(title) \o << "\n" >> \o PyFormat(pub_date) \o << "\n" >>
               \o PyFormat(description_plain))

canonical_feed_string(pub_date, title, description_plain) ==
  Utf8Encode(PyFormat(pub_date) \o << "\n" >> \o PyFormat(title) \o << "\n" >>
               \o PyFormat(description_plain))

sign_feed_item(private_key, pub_date, title, description_plain) ==
  LET canonical == canonical_feed_string(pub_date, title, description_plain)
      sig == Ed25519Sign(private_key, canonical)
  IN  BytesHex(sig)

verify_feed_signature(pub, pub_date, title, description_plain, signature_hex) ==
  LET canonical == canonical_feed_string(pub_date, title, description_plain)
  IN  ReturnTrueExceptFalse(TryVerify(pub, signature_hex, canonical))

(***************************************************************************)
(* Keys as text: the compact identifier of a public key.                   *)
(***************************************************************************)
\* the Base64 text of each keypair's public key (DER), shortened to four
\* characters; distinct keys have distinct texts
CompactIds == << << "A", "A", "A", "A" >>, << "B", "B", "B", "B" >>, << "C", "C", "C", "C" >>, << "D", "D", "D", "D" >> >>

public_key_to_b64der(pub) == CompactIds[pub.seed]

(***************************************************************************)
(* apps/feeds/lib/feed.py: generate_rss.  An item is what                  *)
(* MarkdownFeed._parse_file returns: a title, a datetime and the content;  *)
(* the id, link, author and guid of an item take no part in signing and    *)
(* are left out.  The feed returned is described by what feed.rss()        *)
(* serialises: the feed's title and description and, per item, its title,  *)
(* description, the text of its pubDate element and its signature element. *)
(***************************************************************************)
DayNames == << << "M", "o", "n" >>, << "T", "u", "e" >>, << "W", "e", "d" >>, << "T", "h", "u" >>, << "F", "r", "i" >>, << "S", "a", "t" >>, << "S", "u", "n" >> >>

MonthNames ==
  << << "J", "a", "n" >>, << "F", "e", "b" >>, << "M", "a", "r" >>, << "A", "p", "r" >>, << "M", "a", "y" >>, << "J", "u", "n" >>,
     << "J", "u", "l" >>, << "A", "u", "g" >>, << "S", "e", "p" >>, << "O", "c", "t" >>, << "N", "o", "v" >>, << "D", "e", "c" >> >>

MonthOffsets == << 0, 3, 2, 5, 0, 3, 5, 1, 4, 6, 2, 4 >>

\* datetime.weekday(): Monday is 0
Weekday(d) ==
  LET y == IF d.month < 3 THEN d.year - 1 ELSE d.year
      sunday0 == (y + (y \div 4) - (y \div 100) + (y \div 400)
                    + MonthOffsets[d.month] + d.day) % 7
  IN  (sunday0 + 6) % 7

\* the text rfeed writes in a pubDate element:
\* "Wed, 01 Jan 2025 00:00:00 GMT"
Rfc822Date(d) ==
  DayNames[Weekday(d) + 1] \o << ",", " " >> \o TwoDigits(d.day) \o << " " >>
    \o MonthNames[d.month] \o << " " >> \o FourDigits(d.year) \o << " " >>
    \o TwoDigits(d.hour) \o << ":" >> \o TwoDigits(d.minute) \o << ":" >>
    \o TwoDigits(d.second) \o << " ", "G", "M", "T" >>

\* a local variable not yet assigned
Unbound == [t |-> "unbound"]

\* truth of a value in a condition: None, the empty str and the empty list
\* are false
Truthy(x) ==
  CASE x.t = "None" -> FALSE
    [] x.t = "str" -> x.v # << >>
    [] x.t = "list" -> x.v # << >>
    [] OTHER -> TRUE

\* Signature(signature_value, key_id), as published: the hex signature as
\* content and the key identifier as the keyId attribute
Signature(signature_value, key_id) ==
  [signature_value |-> signature_value, keyId |-> key_id]

\* the locals of generate_rss before the loop
RssLocals(title, description) ==
  [title |-> title, description |-> description, signature_value |-> Unbound,
   signature_id |-> Unbound, feed_items |-> << >>, raised |-> PyNone]

\* a faulty signer: every item is signed with the fields of the first item
RssSignFirstItem(sign, items, item) ==
  sign_feed_item(sign.key, PyDate(items[1].date), items[1].title, items[1].content)

\* lines 54-58: the signature of the item of this iteration
RssSignItem(sign, items, item) ==
  sign_feed_item(sign.key, PyDate(item.date), item.title, item.content)

\* private_key.sign(canonical) takes the message alone for an Ed25519 key;
\* the sign method of an RSA key needs a padding and a hash as well and
\* raises TypeError without them
SignsMessageAlone(private_key) == private_key.type = "Ed25519PrivateKey"

\* one iteration of the loop over items (lines 46-77)
RssLoopBody(st, items, item, sign) ==
  LET pub_date == item.date
      description == item.content
      title == item.title
      signature_value ==
        IF Truthy(sign)
        THEN (IF Truthy(sign.key) THEN PyStr(RssSignItem(sign, items, item)) ELSE PyNone)
        ELSE st.signature_value
      signature_id ==
        IF Truthy(sign)
        THEN (IF Truthy(sign.id) THEN sign.id ELSE PyNone)
        ELSE st.signature_id
      bound == [st EXCEPT !.title = title, !.description = description,
                          !.signature_value = signature_value,
                          !.signature_id = signature_id]
  IN  IF Truthy(sign) /\ Truthy(sign.key) /\ ~SignsMessageAlone(sign.key)
      THEN [st EXCEPT !.title = title, !.description = description,
                      !.raised = PyStr("TypeError")]
      ELSE IF signature_value = Unbound
        \/ (Truthy(signature_value) /\ signature_id = Unbound)
      THEN [bound EXCEPT !.raised = PyStr("UnboundLocalError")]
      ELSE [bound EXCEPT !.feed_items = Append(@,
              [title |-> title,
               description |-> description,
               pubDate |-> Rfc822Date(pub_date),
               extensions |->
                 << IF Truthy(signature_value) /\ Truthy(signature_id)
                    THEN Signature(signature_value.v, sign.id.v)
                    ELSE PyNone >>])]

RECURSIVE RssLoop(_, _, _, _)
\* the loop over items[i..], stopped by the first exception
RssLoop(st, items, i, sign) ==
  IF i > Len(items) \/ st.raised # PyNone THEN st
  ELSE RssLoop(RssLoopBody(st, items, items[i], sign), items, i + 1, sign)

generate_rss(title, description, items, sign) ==
  LET st == RssLoop(RssLocals(title, description), items, 1, sign)
  IN  IF st.raised # PyNone THEN Raise(st.raised.v)
      ELSE Return([title |-> st.title, description |-> st.description,
                   items |-> st.feed_items])

(***************************************************************************)
(* shared/vcard.py: parse_params and parse_vcard.                          *)
(***************************************************************************)
PyInt(n) == [t |-> "int", v |-> n]

\* a bool
PyBool(b) == [t |-> "bool", b |-> b]

\* the elements of a sequence
Range(s) == { s[i] : i \in 1..Len(s) }

LowerLetters == { PrintableAscii[i] : i \in 66..91 }

UpperLetters == { PrintableAscii[i] : i \in 34..59 }

RECURSIVE StrUpper(_)
\* str.upper(), on ASCII letters
StrUpper(s) ==
  IF s = << >> THEN << >>
  ELSE << IF Head(s) \in LowerLetters
          THEN PrintableAscii[IndexOf(Head(s), PrintableAscii) - 32]
          ELSE Head(s) >> \o StrUpper(Tail(s))

RECURSIVE StrLower(_)
\* str.lower(), on ASCII letters
StrLower(s) ==
  IF s = << >> THEN << >>
  ELSE << IF Head(s) \in UpperLetters
          THEN PrintableAscii[IndexOf(Head(s), PrintableAscii) + 32]
          ELSE Head(s) >> \o StrLower(Tail(s))

RECURSIVE LStrip(_)
LStrip(s) == IF s # << >> /\ IsSpace(Head(s)) THEN LStrip(Tail(s)) ELSE s

RECURSIVE RStrip(_)
RStrip(s) ==
  IF s # << >> /\ IsSpace(s[Len(s)]) THEN RStrip(SubSeq(s, 1, Len(s) - 1)) ELSE s

\* str.strip()
Strip(s) == RStrip(LStrip(s))

\* a faulty startswith: only the first character is compared
StartsWithFirstChar(s, prefix) ==
  /\ s # << >>
  /\ s[1] = prefix[1]

\* str.startswith(prefix)
StartsWith(s, prefix) ==
  /\ Len(s) >= Len(prefix)
  /\ SubSeq(s, 1, Len(prefix)) = prefix

\* sep in s
Contains(s, sep) == \E i \in 1..Len(s) : s[i] = sep

\* the position of the first sep in s (sep occurs in s)
FirstIndex(s, sep) ==
  CHOOSE i \in 1..Len(s) : s[i] = sep /\ \A j \in 1..(i - 1) : s[j] # sep

\* s.split(sep, 1): one part when sep does not occur, else the text before
\* the first sep and the text after it
SplitOnce(s, sep) ==
  IF Contains(s, sep)
  THEN << SubSeq(s, 1, FirstIndex(s, sep) - 1), SubSeq(s, FirstIndex(s, sep) + 1, Len(s)) >>
  ELSE << s >>

RECURSIVE Split(_, _)
\* s.split(sep)
Split(s, sep) ==
  IF Contains(s, sep)
  THEN << SubSeq(s, 1, FirstIndex(s, sep) - 1) >>
         \o Split(SubSeq(s, FirstIndex(s, sep) + 1, Len(s)), sep)
  ELSE << s >>

RECURSIVE SplitLines(_)
\* text.splitlines(), up to empty lines (parse_vcard drops them): the text
\* cut at line feeds and carriage returns
SplitLines(text) ==
  IF \E i \in 1..Len(text) : text[i] \in {"\n", "\r"}
  THEN LET i == CHOOSE i \in 1..Len(text) :
                  /\ text[i] \in {"\n", "\r"}
                  /\ \A j \in 1..(i - 1) : text[j] \notin {"\n", "\r"}
       IN  << SubSeq(text, 1, i - 1) >> \o SplitLines(SubSeq(text, i + 1, Len(text)))
  ELSE << text >>

RECURSIVE StrippedLines(_)
\* [line.strip() for line in lines if line.strip()]
StrippedLines(lines) ==
  IF lines = << >> THEN << >>
  ELSE (IF Strip(Head(lines)) # << >> THEN << Strip(Head(lines)) >> ELSE << >>)
         \o StrippedLines(Tail(lines))

\* what int() accepts, after white space is stripped: an optional sign and
\* decimal digits
IsIntText(s) ==
  LET body == IF Strip(s) # << >> /\ Head(Strip(s)) \in {"+", "-"}
              THEN Tail(Strip(s)) ELSE Strip(s)
  IN  /\ body # << >>
      /\ \A i \in 1..Len(body) : body[i] \in Range(DecDigits)

RECURSIVE DigitsValue(_)
DigitsValue(body) ==
  IF body = << >> THEN 0
  ELSE 10 * DigitsValue(SubSeq(body, 1, Len(body) - 1))
         + (IndexOf(body[Len(body)], DecDigits) - 1)

\* int(s): the integer, or ValueError
PyIntOf(s) ==
  IF ~IsIntText(s) THEN Raise("ValueError")
  ELSE LET t == Strip(s)
       IN  IF Head(t) = "-" THEN Return(0 - DigitsValue(Tail(t)))
           ELSE IF Head(t) = "+" THEN Return(DigitsValue(Tail(t)))
           ELSE Return(DigitsValue(t))

\* int(s) as a value that may also be None
PyIntValue(s) ==
  IF PyIntOf(s).kind = "raise" THEN PyIntOf(s) ELSE Return(PyInt(PyIntOf(s).value))

\* a dict with no entries
EmptyDict == [k \in {} |-> k]

\* d[k] = v
DictPut(d, k, v) == [x \in (DOMAIN d) \cup {k} |-> IF x = k THEN v ELSE d[x]]

\* d.get(k): the entry as a str, or None
DictGet(d, k) == IF k \in DOMAIN d THEN PyStr(d[k]) ELSE PyNone

\* a faulty default: the text of None in place of the empty str
DictGetOrNoneText(d, k) == IF k \in DOMAIN d THEN d[k] ELSE << "N", "o", "n", "e" >>

\* d.get(k, ""): the entry, or the empty str
DictGetOrEmpty(d, k) == IF k \in DOMAIN d THEN d[k] ELSE << >>

RECURSIVE ParamsOfParts(_, _)
\* the loop of parse_params over the parts after the property name
ParamsOfParts(parts, params) ==
  IF parts = << >> THEN params
  ELSE LET p == Head(parts)
           kv == SplitOnce(p, "=")
       IN  IF Contains(p, "=")
           THEN ParamsOfParts(Tail(parts), DictPut(params, StrUpper(kv[1]), kv[2]))
           ELSE ParamsOfParts(Tail(parts), params)

parse_params(header) == ParamsOfParts(Tail(Split(header, ";")), EmptyDict)

\* a faulty list.append: an element already in the list is not added again
ListAppendUnique(l, x) == IF \E i \in 1..Len(l) : l[i] = x THEN l ELSE Append(l, x)

\* list.append(x)
ListAppend(l, x) == Append(l, x)

\* Profile(raw=text)
NewProfile(text) ==
  [fn |-> PyNone, photo |-> PyNone, capabilities |-> << >>, public_keys |-> << >>,
   endorsements |-> << >>, revocations |-> << >>, raw |-> text]

\* the body of the loop of parse_vcard for one line: the profile after it, or
\* the exception it raises
ParseLine(profile, line) ==
  IF StartsWith(line, << "F", "N", ":" >>)
  THEN Return([profile EXCEPT !.fn = PyStr(SubSeq(line, 4, Len(line)))])
  ELSE IF StartsWith(line, << "P", "H", "O", "T", "O", ":" >>)
  THEN Return([profile EXCEPT !.photo = PyStr(SubSeq(line, 7, Len(line)))])
  ELSE IF \/ StartsWith(line, << "K", "E", "Y", ";" >>)
          \/ StartsWith(line, << "R", "E", "V", "K", "E", "Y", ";" >>)
          \/ StartsWith(line, << "X", "-", "E", "N", "D", "O", "R", "S", "E", ";" >>)
  THEN LET hv == SplitOnce(line, ":")
       IN  IF Len(hv) < 2 THEN Raise("ValueError")
           ELSE LET header == hv[1]
                    value == hv[2]
                    params == parse_params(header)
                IN  IF StartsWith(line, << "K", "E", "Y", ";" >>)
                    THEN LET pref == IF << "P", "R", "E", "F" >> \in DOMAIN params
                                     THEN PyIntValue(params[<< "P", "R", "E", "F" >>])
                                     ELSE Return(PyNone)
                         IN  IF pref.kind = "raise" THEN pref
                             ELSE Return([profile EXCEPT !.public_keys = ListAppend(@,
                                    [alg |-> StrLower(DictGetOrEmpty(params, << "A", "L", "G" >>)),
                                     key_b64 |-> value,
                                     pref |-> pref.value])])
                    ELSE IF StartsWith(line, << "R", "E", "V", "K", "E", "Y", ";" >>)
                    THEN Return([profile EXCEPT !.revocations = ListAppend(@,
                           [key_b64 |-> value, reason |-> DictGet(params, << "R", "E", "A", "S", "O", "N" >>),
                            date |-> DictGet(params, << "D", "A", "T", "E" >>)])])
                    ELSE Return([profile EXCEPT !.endorsements = ListAppend(@,
                           [endorsee_key_b64 |-> value,
                            signature_hex |-> DictGetOrEmpty(params, << "S", "I", "G" >>),
                            date |-> DictGet(params, << "D", "A", "T", "E" >>),
                            confidence |-> DictGet(params, << "C", "O", "N", "F", "I", "D", "E", "N", "C", "E" >>)])])
  ELSE Return(profile)

RECURSIVE ParseLines(_, _)
\* the loop over the lines, stopped by the first exception
ParseLines(profile, lines) ==
  IF lines = << >> THEN Return(profile)
  ELSE LET step == ParseLine(profile, Head(lines))
       IN  IF step.kind = "raise" THEN step ELSE ParseLines(step.value, Tail(lines))

parse_vcard(text) == ParseLines(NewProfile(text), StrippedLines(SplitLines(text)))

(***************************************************************************)
(* shared/vcard.py: build_vcard_content.  The seventeen standard fields    *)
(* are passed as one mapping from the argument's name to its value; a key  *)
(* of the keys list is a dict, a mapping from its entries' names to their  *)
(* values; custom_attributes is a dict in insertion order, written as the  *)
(* sequence of its items.                                                  *)
(***************************************************************************)
PyList(l) == [t |-> "list", v |-> l]

PyDict(items) == [t |-> "dict", items |-> items]

\* the standard fields in the order of their if statements (lines 191-224):
\* the argument, and the text before and after its value in the line
StandardFields ==
  << [arg |-> "fn", prefix |-> << "F", "N", ":" >>, suffix |-> << >>],
     [arg |-> "n", prefix |-> << "N", ":" >>, suffix |-> << ";", ";", ";", ";" >>],
     [arg |-> "nickname", prefix |-> << "N", "I", "C", "K", "N", "A", "M", "E", ":" >>, suffix |-> << >>],
     [arg |-> "lang", prefix |-> << "L", "A", "N", "G", ":" >>, suffix |-> << >>],
     [arg |-> "gender", prefix |-> << "G", "E", "N", "D", "E", "R", ":" >>, suffix |-> << >>],
     [arg |-> "email", prefix |-> << "E", "M", "A", "I", "L", ":" >>, suffix |-> << >>],
     [arg |-> "categories", prefix |-> << "C", "A", "T", "E", "G", "O", "R", "I", "E", "S", ":" >>, suffix |-> << >>],
     [arg |-> "bday", prefix |-> << "B", "D", "A", "Y", ":" >>, suffix |-> << >>],
     [arg |-> "anniversary", prefix |-> << "A", "N", "N", "I", "V", "E", "R", "S", "A", "R", "Y", ":" >>, suffix |-> << >>],
     [arg |-> "kind", prefix |-> << "K", "I", "N", "D", ":" >>, suffix |-> << >>],
     [arg |-> "adr", prefix |-> << "A", "D", "R", ":" >>, suffix |-> << >>],
     [arg |-> "tel", prefix |-> << "T", "E", "L", ":" >>, suffix |-> << >>],
     [arg |-> "impp", prefix |-> << "I", "M", "P", "P", ":" >>, suffix |-> << >>],
     [arg |-> "photo", prefix |-> << "P", "H", "O", "T", "O", ":" >>, suffix |-> << >>],
     [arg |-> "note", prefix |-> << "N", "O", "T", "E", ";", "L", "A", "N", "G", "U", "A", "G", "E", "=", "e", "n", "-", "U", "S", ":" >>, suffix |-> << >>],
     [arg |-> "url", prefix |-> << "U", "R", "L", ":" >>, suffix |-> << >>],
     [arg |-> "source", prefix |-> << "S", "O", "U", "R", "C", "E", ":" >>, suffix |-> << >>] >>

RECURSIVE FieldLines(_, _)
\* lines 191-224 from the i-th if statement on: a line for each field whose
\* value is true
FieldLines(f, i) ==
  IF i > Len(StandardFields) THEN << >>
  ELSE (IF Truthy(f[StandardFields[i].arg])
        THEN StandardFields[i].prefix \o PyFormat(f[StandardFields[i].arg])
               \o StandardFields[i].suffix \o << "\n" >>
        ELSE << >>) \o FieldLines(f, i + 1)

\* line 227: the KEY line of one key, or the KeyError of a missing entry
BuildKeyLine(key) ==
  IF "alg" \notin DOMAIN key \/ "encoding" \notin DOMAIN key \/ "key_b64" \notin DOMAIN key
  THEN Raise("KeyError")
  ELSE Return(<< "K", "E", "Y", ";", "T", "Y", "P", "E", "=", "p", "u", "b", "l", "i", "c", ";", "A", "L", "G", "=" >> \o StrLower(key.alg.v)
                \o << ";", "P", "R", "E", "F", "=" >> \o PyFormat(IF "pref" \in DOMAIN key THEN key.pref ELSE PyInt(1))
                \o << ";", "E", "N", "C", "O", "D", "I", "N", "G", "=" >> \o PyFormat(key.encoding)
                \o << ":" >> \o PyFormat(key.key_b64) \o << "\n" >>)

RECURSIVE BuildKeyLines(_)
\* lines 225-227: the loop over keys, stopped by the first exception
BuildKeyLines(keys) ==
  IF keys = << >> THEN Return(<< >>)
  ELSE LET first == BuildKeyLine(Head(keys))
           rest == BuildKeyLines(Tail(keys))
       IN  IF first.kind = "raise" THEN first
           ELSE IF rest.kind = "raise" THEN rest
           ELSE Return(first.value \o rest.value)

RECURSIVE CustomAttributeLines(_)
\* lines 230-231: a line for every item of custom_attributes
CustomAttributeLines(items) ==
  IF items = << >> THEN << >>
  ELSE Head(items)[1] \o << ":" >> \o PyFormat(Head(items)[2]) \o << "\n" >>
         \o CustomAttributeLines(Tail(items))

build_vcard_content(f, custom_attributes, keys) ==
  LET attributes == IF custom_attributes = PyNone THEN << >> ELSE custom_attributes.items
      key_lines == IF Truthy(keys) THEN BuildKeyLines(keys.v) ELSE Return(<< >>)
  IN  IF key_lines.kind = "raise" THEN key_lines
      ELSE Return(<< "B", "E", "G", "I", "N", ":", "V", "C", "A", "R", "D" >> \o << "\n" >> \o << "V", "E", "R", "S", "I", "O", "N", ":", "4", ".", "0" >> \o << "\n" >>
                    \o FieldLines(f, 1)
                    \o key_lines.value
                    \o CustomAttributeLines(attributes)
                    \o << "E", "N", "D", ":", "V", "C", "A", "R", "D" >>)

(***************************************************************************)
(* The trust query of a verifier over a parsed Profile.  The repository    *)
(* has no such function; it is written from the precedence rule of the     *)
(* specification: a key listed as revoked is revoked, whatever else the    *)
(* Profile says of it.                                                     *)
(***************************************************************************)
trust_query(profile, key_b64) ==
  IF \E i \in 1..Len(profile.revocations) : profile.revocations[i].key_b64 = key_b64
  THEN "revoked"
  ELSE IF \E i \in 1..Len(profile.public_keys) : profile.public_keys[i].key_b64 = key_b64
  THEN "trusted"
  ELSE "unknown"

(***************************************************************************)
(* apps/feeds/app.py: the build command, from the signing options on.      *)
(* A file holds an armored key, described by its kind and its keypair.     *)
(***************************************************************************)
\* get_option_value: the value given, else the answer to the prompt when
\* interactive (typer.prompt with default None returns a non-empty answer),
\* else Exit; throw_error is not read
get_option_value(current_value, interactive, answer) ==
  IF ~Truthy(current_value)
  THEN (IF interactive THEN Return(answer) ELSE Raise("Exit"))
  ELSE Return(current_value)

\* the key a PEM container of a private key holds: the library returns a
\* key object of the container's algorithm, whichever it is
PrivateKeyOfPem(pem) ==
  IF pem.alg = "ed25519" THEN Ed25519PrivateKey(pem.seed)
  ELSE [type |-> "RSAPrivateKey", seed |-> pem.seed]

PublicKeyOfPem(pem) ==
  IF pem.alg = "ed25519" THEN Ed25519PublicKey(pem.seed)
  ELSE [type |-> "RSAPublicKey", seed |-> pem.seed]

\* serialization.load_pem_private_key(pem_bytes, password=None)
load_private_key_pem(pem) ==
  IF pem.kind = "PRIVATE KEY"
  THEN Return([t |-> "key"] @@ PrivateKeyOfPem(pem))
  ELSE Raise("ValueError")

\* serialization.load_pem_public_key(pem_bytes)
load_public_key_pem(pem) ==
  IF pem.kind = "PUBLIC KEY"
  THEN Return([t |-> "key"] @@ PublicKeyOfPem(pem))
  ELSE Raise("ValueError")

\* lines 298-306: the sign dict from the two key files
BuildSign(files, priv_file, pub_file) ==
  LET key == load_private_key_pem(files[priv_file.v])
      pub == load_public_key_pem(files[pub_file.v])
  IN  IF key.kind = "raise" THEN key
      ELSE IF pub.kind = "raise" THEN pub
      ELSE Return([t |-> "dict", key |-> key.value,
                   id |-> PyStr(public_key_to_b64der(pub.value))])

\* build, lines 258-310, and MarkdownFeed.build: the feed written to the
\* output file, or the exception that ends the command
build(files, states, title, description, sign_priv, sign_pub, interactive, answers) ==
  LET priv_file == get_option_value(sign_priv, interactive, answers[1])
      pub_file == get_option_value(sign_pub, interactive, answers[2])
  IN  IF priv_file.kind = "raise" THEN priv_file
      ELSE IF pub_file.kind = "raise" THEN pub_file
      ELSE IF Truthy(priv_file.value) /\ priv_file.value.v \notin DOMAIN files
      THEN Raise("Exit")
      ELSE IF Truthy(pub_file.value) /\ pub_file.value.v \notin DOMAIN files
      THEN Raise("Exit")
      ELSE IF Truthy(priv_file.value) /\ Truthy(pub_file.value)
      THEN LET sign == BuildSign(files, priv_file.value, pub_file.value)
           IN  IF sign.kind = "raise" THEN sign
               ELSE generate_rss(title, description, states, sign.value)
      ELSE generate_rss(title, description, states, PyNone)

(***************************************************************************)
(* apps/feeds/lib/markdown.py: _create_state_content and create_state, and *)
(* the new command of apps/feeds/app.py that calls them.  The disk is a    *)
(* mapping from the paths of the files that exist to their text; a call    *)
(* that writes files ends with its outcome and the disk it leaves.         *)
(***************************************************************************)
\* lines 78-83: "\n".join of "key: value" for the attributes with a value
FrontMatter(title, date) ==
  LET attributes == << << << "t", "i", "t", "l", "e" >>, IF Truthy(title) THEN title ELSE PyNone >>,
                       << << "d", "a", "t", "e" >>, date >> >>
      lines == SelectSeq(attributes, LAMBDA a : Truthy(a[2]))
  IN  IF lines = << >> THEN << >>
      ELSE IF Len(lines) = 1 THEN lines[1][1] \o << ":", " " >> \o PyFormat(lines[1][2])
      ELSE lines[1][1] \o << ":", " " >> \o PyFormat(lines[1][2]) \o << "\n" >>
             \o lines[2][1] \o << ":", " " >> \o PyFormat(lines[2][2])

\* lines 85-89: the text assigned to file_content
FileContent(title, message, date) ==
  << "-", "-", "-", "\n" >> \o FrontMatter(title, date) \o << "\n", "-", "-", "-", "\n" >> \o PyFormat(message) \o << "\n" >>

\* file_content is assigned and the function ends there, with no return
\* statement: the call returns None
_create_state_content(title, message, date) ==
  LET file_content == FileContent(title, message, date)
  IN  PyNone

\* the outcome of a call and the disk after it
OnDisk(outcome, files) == outcome @@ [files |-> files]

\* f.write(content) on the file just opened for writing: a str is written,
\* anything else raises TypeError and leaves the file empty
WriteFile(files, path, content) ==
  IF content.t = "str"
  THEN OnDisk(Return(PyNone), DictPut(files, path, content.v))
  ELSE OnDisk(Raise("TypeError"), DictPut(files, path, << >>))

create_state(files, destination, title, message, date) ==
  LET content == _create_state_content(title, message, date)
  IN  IF destination \in DOMAIN files THEN OnDisk(Raise("Exit"), files)
      ELSE WriteFile(files, destination, content)

\* new, lines 100-137, for the markdown feed type; now is the text of the
\* current time
new(files, title, message, filename, interactive, answers, now) ==
  LET file == get_option_value(filename, interactive, answers[1])
      given_title == get_option_value(title, interactive, answers[2])
      given_message == get_option_value(message, interactive, answers[3])
  IN  IF file.kind = "raise" THEN OnDisk(file, files)
      ELSE IF file.value.v \in DOMAIN files THEN OnDisk(Raise("Exit"), files)
      ELSE IF given_title.kind = "raise" THEN OnDisk(given_title, files)
      ELSE IF given_message.kind = "raise" THEN OnDisk(given_message, files)
      ELSE create_state(files, file.value.v, given_title.value, given_message.value, now)

(***************************************************************************)
(* The inputs the calls are made with.                                     *)
(***************************************************************************)
\* compact text identifiers of keys (unwrapped Base64), shortened
KeyIds == { << "A", "A", "A", "A" >>, << "A", "A", "A", "B" >>, << "B", "B", "B", "B" >> }

PubDateTexts == { << "2", "0", "2", "5", "-", "0", "1", "-", "0", "1", "T", "0", "0", ":", "0", "0", ":", "0", "0", "Z" >>, << "2", "0", "2", "5", "-", "0", "1", "-", "0", "1", "T", "0", "0", ":", "0", "0", ":", "0", "1", "Z" >> }

Titles == { << "H", "e", "l", "l", "o" >>, << "H", "e", "l", "l", "p" >>, << "a", "\n", "b" >>, << "a" >> }

Descriptions == { << "W", "o", "r", "l", "d" >>, << "U+00E9", "U+20AC" >>, << "b", "\n", "W", "o", "r", "l", "d" >> }

\* signature texts a verifier may be handed in place of the signature hex h
SignatureTexts(h) ==
  { [variant |-> "genuine", text |-> h],
    [variant |-> "forged", text |-> << (IF h[1] = "0" THEN "1" ELSE "0") >> \o Tail(h)],
    [variant |-> "zeros", text |-> [i \in 1..(2 * SigLen) |-> "0"]],
    [variant |-> "odd", text |-> SubSeq(h, 1, Len(h) - 1)],
    [variant |-> "nonhex", text |-> << "g" >> \o Tail(h)],
    [variant |-> "short", text |-> SubSeq(h, 1, Len(h) - 2)],
    [variant |-> "long", text |-> h \o << "0", "0" >>],
    [variant |-> "empty", text |-> << >>] }

MalformedVariants == {"odd", "nonhex", "short", "long"}

\* the datetimes of feed items
ItemDates ==
  { [year |-> 2025, month |-> 1, day |-> 1, hour |-> 0, minute |-> 0, second |-> 0],
    [year |-> 2024, month |-> 2, day |-> 29, hour |-> 10, minute |-> 30, second |-> 5] }

\* the title and the content (HTML) of the markdown files
ItemTexts ==
  { << << "H", "e", "l", "l", "o" >>,
       << "<", "p", ">", "W", "o", "r", "l", "d", "<", "/", "p", ">" >> >>,
    << << "B", "y", "e" >>, << "<", "p", ">", "c", "<", "/", "p", ">" >> >> }

\* the items MarkdownFeed._parse_file can return
Items ==
  { [title |-> PyStr(tc[1]), date |-> d, content |-> PyStr(tc[2])] :
      tc \in ItemTexts, d \in ItemDates }

RECURSIVE ListsOf(_, _)
\* the sequences of at most n elements of S
ListsOf(S, n) ==
  IF n = 0 THEN { << >> }
  ELSE LET shorter == ListsOf(S, n - 1)
       IN  shorter \cup { Append(l, x) : l \in { m \in shorter : Len(m) = n - 1 }, x \in S }

ItemLists == ListsOf(Items, MaxItems)

\* the sign argument: None, or a private key and a key identifier
SignContexts ==
  { PyNone } \cup
  { [t |-> "dict", key |-> [t |-> "key"] @@ Ed25519PrivateKey(i),
     id |-> PyStr(CompactIds[j])] : i \in Seeds, j \in Seeds }

FeedTitle == PyStr(<< "M", "y", " ", "R", "S", "S", " ", "F", "e", "e", "d" >>)

FeedDescription == PyStr(<< "T", "h", "i", "s", " ", "i", "s", " ", "m", "y", " ", "R", "S", "S", " ", "f", "e", "e", "d" >>)

\* a line of a vCard, as documented: the property name, its parameters in
\* order, the ':' separator and its value
VcardLine(kind, params, value) ==
  [kind |-> kind, params |-> params, sep |-> << ":" >>, value |-> value]

\* a line cut short: the property name and its parameters, and no ':'
\* separator and no value after them
CutLine(kind, params) == [kind |-> kind, params |-> params, sep |-> << >>, value |-> << >>]

KeyLines ==
  { VcardLine(<< "K", "E", "Y" >>, << << << "A", "L", "G" >>, << "e", "d", "2", "5", "5", "1", "9" >> >>, << << "P", "R", "E", "F" >>, p >>, << << "E", "N", "C", "O", "D", "I", "N", "G" >>, << "b" >> >> >>, k) :
      p \in { << "1" >>, << "2" >>, << "x" >> }, k \in { << "A", "A", "A", "A" >>, << "B", "B", "B", "B" >> } }

RevkeyLines ==
  { VcardLine(<< "R", "E", "V", "K", "E", "Y" >>, ps, k) :
      ps \in { << << << "R", "E", "A", "S", "O", "N" >>, << "c", "o", "m", "p", "r", "o", "m", "i", "s", "e", "d" >> >> >>,
               << << << "R", "E", "A", "S", "O", "N" >>, << "c", "o", "m", "p", "r", "o", "m", "i", "s", "e", "d" >> >>, << << "D", "A", "T", "E" >>, << "2", "0", "2", "5", "-", "0", "1", "-", "0", "1" >> >> >>,
               << << << "R", "E", "A", "S", "O", "N" >>, << "c", "o", "m", "p", "r", "o", "m", "i", "s", "e", "d" >> >>, << << "D", "A", "T", "E" >>, << "2", "0", "2", "5", "-", "0", "1", "-", "0", "1", "T", "0", "0", ":", "0", "0", ":", "0", "0", "Z" >> >> >> },
      k \in { << "A", "A", "A", "A" >>, << "B", "B", "B", "B" >> } }

\* a KEY line without PREF, its ALG in upper case
KeyLinesNoPref ==
  { VcardLine(<< "K", "E", "Y" >>, << << << "A", "L", "G" >>, << "E", "D", "2", "5", "5", "1", "9" >> >> >>, << "A", "A", "A", "A" >>) }

NameLines ==
  { VcardLine(<< "F", "N" >>, << >>, << "A", "l", "i", "c", "e" >>),
    VcardLine(<< "F", "N" >>, << >>, << "B", "o", "b" >>),
    VcardLine(<< "P", "H", "O", "T", "O" >>, << >>, << "a", ".", "p", "n", "g" >>),
    VcardLine(<< "P", "H", "O", "T", "O" >>, << >>, << "b", ".", "p", "n", "g" >>) }

EndorseLines ==
  { VcardLine(<< "X", "-", "E", "N", "D", "O", "R", "S", "E" >>, << << << "S", "I", "G" >>, << "a", "b", "c", "d" >> >>, << << "D", "A", "T", "E" >>, << "2", "0", "2", "5", "-", "0", "1", "-", "0", "1" >> >>, << << "C", "O", "N", "F", "I", "D", "E", "N", "C", "E" >>, << "h", "i", "g", "h" >> >> >>, << "B", "B", "B", "B" >>),
    VcardLine(<< "X", "-", "E", "N", "D", "O", "R", "S", "E" >>, << << << "S", "I", "G" >>, << "a", "b", "c", "d" >> >>, << << "D", "A", "T", "E" >>, << "2", "0", "2", "5", "-", "0", "1", "-", "0", "1", "T", "0", "0", ":", "0", "0", ":", "0", "0", "Z" >> >>, << << "C", "O", "N", "F", "I", "D", "E", "N", "C", "E" >>, << "h", "i", "g", "h" >> >> >>, << "B", "B", "B", "B" >>),
    VcardLine(<< "X", "-", "E", "N", "D", "O", "R", "S", "E" >>, << << << "E", "N", "C", "O", "D", "I", "N", "G" >>, << "b" >> >> >>, << "B", "B", "B", "B" >>),
    VcardLine(<< "X", "-", "E", "N", "D", "O", "R", "S", "E" >>, << << << "D", "A", "T", "E" >>, << "2", "0", "2", "5", "-", "0", "1", "-", "0", "1" >> >> >>, << "A", "A", "A", "A" >>) }

OtherLines ==
  { VcardLine(<< "X", "-", "U", "N", "K", "N", "O", "W", "N" >>, << << << "F", "O", "O" >>, << "1" >> >> >>, << "b", "a", "r" >>) }

\* lines of a recognised kind with no ':' separator
CutLines ==
  { CutLine(<< "K", "E", "Y" >>, << << << "A", "L", "G" >>, << "e", "d", "2", "5", "5", "1", "9" >> >> >>),
    CutLine(<< "R", "E", "V", "K", "E", "Y" >>, << << << "R", "E", "A", "S", "O", "N" >>, << "c", "o", "m", "p", "r", "o", "m", "i", "s", "e", "d" >> >> >>),
    CutLine(<< "X", "-", "E", "N", "D", "O", "R", "S", "E" >>, << << << "S", "I", "G" >>, << "a", "b", "c", "d" >> >> >>) }

VcardLines ==
  KeyLines \cup KeyLinesNoPref \cup RevkeyLines \cup NameLines \cup EndorseLines
    \cup OtherLines \cup CutLines

RECURSIVE ParamsText(_)
\* ";NAME=value" for each parameter
ParamsText(params) ==
  IF params = << >> THEN << >>
  ELSE << ";" >> \o Head(params)[1] \o << "=" >> \o Head(params)[2]
         \o ParamsText(Tail(params))

\* the text of a line: NAME;PARAM=value;...:value
LineText(l) == l.kind \o ParamsText(l.params) \o l.sep \o l.value

RECURSIVE VcardText(_)
\* the text of a vCard: its lines, each ended by a line feed
VcardText(lines) ==
  IF lines = << >> THEN << >>
  ELSE LineText(Head(lines)) \o << "\n" >> \o VcardText(Tail(lines))

\* a line between two FN or PHOTO lines
NameSandwiches == { << a, m, b >> : a \in NameLines, m \in VcardLines, b \in NameLines }

VcardLineLists == ListsOf(VcardLines, MaxLines) \cup NameSandwiches

\* the names of the standard field arguments of build_vcard_content
FieldArgs == { StandardFields[i].arg : i \in 1..Len(StandardFields) }

\* a value for every standard field
FieldExamples ==
  [a \in FieldArgs |->
     CASE a = "fn" -> PyStr(<< "A", "l", "i", "c", "e" >>)
       [] a = "n" -> PyStr(<< "D", "o", "e" >>)
       [] a = "nickname" -> PyStr(<< "a", "l" >>)
       [] a = "lang" -> PyStr(<< "e", "n" >>)
       [] a = "gender" -> PyStr(<< "F" >>)
       [] a = "email" -> PyStr(<< "a", "@", "b", ".", "c" >>)
       [] a = "categories" -> PyStr(<< "x", ",", "y" >>)
       [] a = "bday" -> PyStr(<< "2", "0", "0", "0", "-", "0", "1", "-", "0", "1" >>)
       [] a = "anniversary" -> PyStr(<< "2", "0", "2", "0", "-", "0", "2", "-", "0", "2" >>)
       [] a = "kind" -> PyStr(<< "i", "n", "d", "i", "v", "i", "d", "u", "a", "l" >>)
       [] a = "adr" -> PyStr(<< "1", " ", "M", "a", "i", "n", " ", "S", "t" >>)
       [] a = "tel" -> PyStr(<< "+", "1", " ", "5", "5", "5" >>)
       [] a = "impp" -> PyStr(<< "x", "m", "p", "p", ":", "a", "@", "b", ".", "c" >>)
       [] a = "photo" -> PyStr(<< "a", ".", "p", "n", "g" >>)
       [] a = "note" -> PyStr(<< "h", "i" >>)
       [] a = "url" -> PyStr(<< "h", "t", "t", "p", "s", ":", "/", "/", "a", ".", "b" >>)
       [] a = "source" -> PyStr(<< "h", "t", "t", "p", "s", ":", "/", "/", "a", ".", "b", "/", "c", ".", "v", "c", "f" >>)]

\* the standard fields a caller gives: none, all empty, all given, or one
\* given
FieldSets ==
  { [a \in FieldArgs |-> PyNone],
    [a \in FieldArgs |-> PyStr(<< >>)],
    FieldExamples,
    [a \in FieldArgs |-> IF a = "fn" THEN FieldExamples[a] ELSE PyNone],
    [a \in FieldArgs |-> IF a = "n" THEN FieldExamples[a] ELSE PyStr(<< >>)] }

\* custom_attributes: None, or the items the vcard command collects; the
\* prompt for a value accepts the empty text
CustomAttributeSets ==
  { PyNone,
    PyDict(<< >>),
    PyDict(<< << << "X", "-", "F", "E", "E", "D" >>, PyStr(<< "h", "t", "t", "p", "s", ":", "/", "/", "a", ".", "b", "/", "r", "s", "s" >>) >> >>),
    PyDict(<< << << "X", "-", "F", "E", "E", "D" >>, PyStr(<< >>) >> >>),
    PyDict(<< << << "X", "-", "S", "O", "C", "I", "A", "L", ";", "P", "L", "A", "T", "F", "O", "R", "M", "=", "w", "e", "b" >>, PyStr(<< "h", "t", "t", "p", "s", ":", "/", "/", "a", ".", "b" >>) >>, << << "X", "-", "N", "O", "T", "E" >>, PyStr(<< >>) >> >>) }

\* key dicts: with every entry, without 'pref', without 'encoding', and
\* with an empty key text
KeyDicts ==
  { [alg |-> PyStr(<< "e", "d", "2", "5", "5", "1", "9" >>), key_b64 |-> PyStr(<< "A", "A", "A", "A" >>), pref |-> PyInt(2), encoding |-> PyStr(<< "b" >>)],
    [alg |-> PyStr(<< "E", "d", "2", "5", "5", "1", "9" >>), key_b64 |-> PyStr(<< "B", "B", "B", "B" >>), encoding |-> PyStr(<< "b" >>)],
    [alg |-> PyStr(<< "e", "d", "2", "5", "5", "1", "9" >>), key_b64 |-> PyStr(<< "A", "A", "A", "A" >>), pref |-> PyInt(1)],
    [alg |-> PyStr(<< "e", "d", "2", "5", "5", "1", "9" >>), key_b64 |-> PyStr(<< >>), pref |-> PyInt(1), encoding |-> PyStr(<< "b" >>)] }

\* keys: None, or a list of key dicts
KeyLists == { PyNone } \cup { PyList(l) : l \in ListsOf(KeyDicts, MaxLines) }

\* keys with every entry, as the vcard command makes them and as a caller
\* of the builder may: an upper-case alg, an alg with '=', a negative and a
\* two-digit pref, a key text with white space inside, at its start and at
\* its end, an empty key text, and True as pref
RoundTripKeyDicts ==
  { [alg |-> PyStr(<< "E", "d", "2", "5", "5", "1", "9" >>), key_b64 |-> PyStr(<< "A", "A", "A", "A" >>), pref |-> PyInt(2), encoding |-> PyStr(<< "b" >>)],
    [alg |-> PyStr(<< "x", "=", "y" >>), key_b64 |-> PyStr(<< " ", "A", " ", "A" >>), pref |-> PyInt(0 - 3), encoding |-> PyStr(<< "b" >>)],
    [alg |-> PyStr(<< "e", "d", "2", "5", "5", "1", "9" >>), key_b64 |-> PyStr(<< >>), pref |-> PyInt(10), encoding |-> PyStr(<< "b", "a", "s", "e", "6", "4" >>)],
    [alg |-> PyStr(<< "e", "d", "2", "5", "5", "1", "9" >>), key_b64 |-> PyStr(<< "A", "A", "A", "A", " " >>), pref |-> PyInt(1), encoding |-> PyStr(<< "b" >>)],
    [alg |-> PyStr(<< "e", "d", "2", "5", "5", "1", "9" >>), key_b64 |-> PyStr(<< "B", "B", "B", "B" >>), pref |-> PyBool(TRUE), encoding |-> PyStr(<< "b" >>)] }

\* keys=keys of the round trip: a list of such dicts
RoundTripKeyLists == ListsOf(RoundTripKeyDicts, MaxLines)

\* the standard fields left at their default
NoFields == [a \in FieldArgs |-> PyNone]

\* the disk before a post is created: one post exists
PostFiles == DictPut(EmptyDict, << "o", "l", "d", ".", "m", "d" >>, << "-", "-", "-", "\n", "t", "i", "t", "l", "e", ":", " ", "O", "l", "d", "\n", "-", "-", "-", "\n", "o", "l", "d", "\n" >>)

\* the file names a new post is given
PostPaths == { << "o", "l", "d", ".", "m", "d" >>, << "p", "o", "s", "t", ".", "m", "d" >> }

\* the titles of a new post: the default of --title is the empty text
PostTitles == { PyStr(<< >>), PyStr(<< "M", "y", " ", "P", "o", "s", "t" >>) }

PostMessages == { PyStr(<< "H", "e", "l", "l", "o" >>) }

\* the time the new command reads: one fixed text
Now == PyStr(<< "2", "0", "2", "5", "-", "0", "1", "-", "0", "1", "T", "0", "0", ":", "0", "0", ":", "0", "0", "Z" >>)

\* the dates create_state is given: None is its default
PostDates == { PyNone, Now }

\* the identifiers a verifier asks about
QueryIds == { << "A", "A", "A", "A" >>, << "B", "B", "B", "B" >> }

\* datetimes in order: a is not later than b
DateLE(a, b) ==
  LET ta == << a.year, a.month, a.day, a.hour, a.minute, a.second >>
      tb == << b.year, b.month, b.day, b.hour, b.minute, b.second >>
  IN  \/ ta = tb
      \/ \E i \in 1..6 : ta[i] < tb[i] /\ \A j \in 1..(i - 1) : ta[j] = tb[j]

\* the lists MarkdownFeed.collect returns: sorted by date, latest first
CollectedLists ==
  { l \in ItemLists : \A i \in 1..(Len(l) - 1) : DateLE(l[i + 1].date, l[i].date) }

PrivPath(i) == << "p", "r", "i", "v", "a", "t", "e" >> \o << DecDigits[i + 1] >> \o << ".", "p", "e", "m" >>

PubPath(i) == << "p", "u", "b", "l", "i", "c" >> \o << DecDigits[i + 1] >> \o << ".", "p", "e", "m" >>

\* the file of an RSA private key
RsaPath == << "r", "s", "a", ".", "p", "e", "m" >>

\* the key files on disk: the two files of every Ed25519 keypair, and the
\* private key file of an RSA keypair
KeyFiles ==
  [p \in { PrivPath(i) : i \in Seeds } \cup { PubPath(i) : i \in Seeds } \cup { RsaPath } |->
     IF p = RsaPath
     THEN [kind |-> "PRIVATE KEY", alg |-> "rsa", seed |-> 1]
     ELSE IF \E i \in Seeds : p = PrivPath(i)
     THEN [kind |-> "PRIVATE KEY", alg |-> "ed25519",
           seed |-> CHOOSE i \in Seeds : p = PrivPath(i)]
     ELSE [kind |-> "PUBLIC KEY", alg |-> "ed25519",
           seed |-> CHOOSE i \in Seeds : p = PubPath(i)]]

\* what --sign-priv and --sign-pub can be given, or the prompt answered
PrivPaths ==
  { PyStr(PrivPath(i)) : i \in Seeds }
    \cup { PyStr(RsaPath), PyStr(<< "m", "i", "s", "s", "i", "n", "g", ".", "p", "e", "m" >>) }

PubPaths == { PyStr(PubPath(i)) : i \in Seeds } \cup { PyStr(<< "m", "i", "s", "s", "i", "n", "g", ".", "p", "e", "m" >>) }

(***************************************************************************)
(* The state machine: one call per run.                                    *)
(***************************************************************************)
NoCall == [op |-> "none"]

NoRet == [kind |-> "none"]

Init ==
  /\ call = NoCall
  /\ ret = NoRet

CanonicalEndorsementString ==
  /\ call = NoCall
  /\ \E k \in KeyIds :
       /\ call' = [op |-> "canonical_endorsement_string", endorsee_key_b64 |-> k]
       /\ ret' = Return(canonical_endorsement_string(PyStr(k)))

CanonicalFeedString ==
  /\ call = NoCall
  /\ \E d \in PubDateTexts, t \in Titles, s \in Descriptions :
       /\ call' = [op |-> "canonical_feed_string", pub_date |-> d, title |-> t,
                   description_plain |-> s]
       /\ ret' = Return(canonical_feed_string(PyStr(d), PyStr(t), PyStr(s)))

SignEndorsement ==
  /\ call = NoCall
  /\ \E i \in Seeds, k \in KeyIds :
       /\ call' = [op |-> "sign_endorsement", seed |-> i, endorsee_key_b64 |-> k]
       /\ ret' = Return(sign_endorsement(Ed25519PrivateKey(i), PyStr(k)))

\* a verifier checks a signature text against a key and an identifier
VerifyEndorsementSignature ==
  /\ call.op = "sign_endorsement"
  /\ \E i \in Seeds, k \in KeyIds, sg \in SignatureTexts(ret.value) :
       /\ call' = [op |-> "verify_endorsement_signature", signer |-> call.seed,
                   signed |-> call.endorsee_key_b64, seed |-> i,
                   endorsee_key_b64 |-> k, variant |-> sg.variant,
                   signature_hex |-> sg.text]
       /\ ret' = verify_endorsement_signature(Ed25519PublicKey(i), PyStr(k), sg.text)

SignFeedItem ==
  /\ call = NoCall
  /\ \E i \in Seeds, d \in PubDateTexts, t \in Titles, s \in Descriptions :
       /\ call' = [op |-> "sign_feed_item", seed |-> i, pub_date |-> d, title |-> t,
                   description_plain |-> s]
       /\ ret' = Return(sign_feed_item(Ed25519PrivateKey(i), PyStr(d), PyStr(t), PyStr(s)))

VerifyFeedSignature ==
  /\ call.op = "sign_feed_item"
  /\ \E i \in Seeds, d \in PubDateTexts, t \in Titles, s \in Descriptions,
        sg \in SignatureTexts(ret.value) :
       /\ call' = [op |-> "verify_feed_signature", signer |-> call.seed,
                   signed |-> << call.pub_date, call.title, call.description_plain >>,
                   seed |-> i, pub_date |-> d, title |-> t, description_plain |-> s,
                   variant |-> sg.variant, signature_hex |-> sg.text]
       /\ ret' = verify_feed_signature(Ed25519PublicKey(i), PyStr(d), PyStr(t),
                                       PyStr(s), sg.text)

GenerateRss ==
  /\ call = NoCall
  /\ \E items \in ItemLists, sign \in SignContexts :
       /\ call' = [op |-> "generate_rss", title |-> FeedTitle,
                   description |-> FeedDescription, items |-> items, sign |-> sign]
       /\ ret' = generate_rss(FeedTitle, FeedDescription, items, sign)

ParseVcard ==
  /\ call = NoCall
  /\ \E lines \in VcardLineLists :
       /\ call' = [op |-> "parse_vcard", lines |-> lines, text |-> VcardText(lines)]
       /\ ret' = parse_vcard(VcardText(lines))

\* a verifier asks the parsed Profile about a key
TrustQuery ==
  /\ call.op = "parse_vcard"
  /\ ret.kind = "return"
  /\ \E k \in QueryIds :
       /\ call' = [op |-> "trust_query", lines |-> call.lines, text |-> call.text,
                   profile |-> ret.value, key_b64 |-> k]
       /\ ret' = Return(trust_query(ret.value, k))

Build ==
  /\ call = NoCall
  /\ \E states \in CollectedLists, interactive \in BOOLEAN,
        sign_priv \in PrivPaths \cup { PyNone }, sign_pub \in PubPaths \cup { PyNone } :
       \E a1 \in (IF sign_priv = PyNone /\ interactive THEN PrivPaths ELSE { PyNone }),
          a2 \in (IF sign_pub = PyNone /\ interactive THEN PubPaths ELSE { PyNone }) :
         /\ call' = [op |-> "build", states |-> states, interactive |-> interactive,
                     sign_priv |-> sign_priv, sign_pub |-> sign_pub,
                     answers |-> << a1, a2 >>]
         /\ ret' = build(KeyFiles, states, FeedTitle, FeedDescription, sign_priv,
                         sign_pub, interactive, << a1, a2 >>)

BuildVcardContent ==
  /\ call = NoCall
  /\ \E f \in FieldSets, custom_attributes \in CustomAttributeSets, keys \in KeyLists :
       /\ call' = [op |-> "build_vcard_content", fields |-> f,
                   custom_attributes |-> custom_attributes, keys |-> keys]
       /\ ret' = build_vcard_content(f, custom_attributes, keys)

\* parse_vcard(build_vcard_content(keys=keys))
ParseBuiltVcard ==
  /\ call = NoCall
  /\ \E keys \in RoundTripKeyLists :
       /\ call' = [op |-> "parse_vcard(build_vcard_content)", keys |-> keys]
       /\ ret' = LET built == build_vcard_content(NoFields, PyNone, PyList(keys))
                 IN  IF built.kind = "raise" THEN built ELSE parse_vcard(built.value)

LoadPrivateKeyPem ==
  /\ call = NoCall
  /\ \E p \in DOMAIN KeyFiles :
       /\ call' = [op |-> "load_private_key_pem", path |-> p, pem |-> KeyFiles[p]]
       /\ ret' = load_private_key_pem(KeyFiles[p])

CreateStateContent ==
  /\ call = NoCall
  /\ \E title \in PostTitles, message \in PostMessages, date \in PostDates :
       /\ call' = [op |-> "_create_state_content", title |-> title,
                   message |-> message, date |-> date]
       /\ ret' = Return(_create_state_content(title, message, date))

CreateState ==
  /\ call = NoCall
  /\ \E destination \in PostPaths, title \in PostTitles, message \in PostMessages,
        date \in PostDates :
       /\ call' = [op |-> "create_state", files |-> PostFiles,
                   destination |-> destination, title |-> title,
                   message |-> message, date |-> date]
       /\ ret' = create_state(PostFiles, destination, title, message, date)

New ==
  /\ call = NoCall
  /\ \E interactive \in BOOLEAN, title \in PostTitles,
        message \in PostMessages \cup { PyNone },
        filename \in { PyStr(p) : p \in PostPaths } \cup { PyNone } :
       \E a1 \in (IF filename = PyNone /\ interactive
                   THEN { PyStr(p) : p \in PostPaths } ELSE { PyNone }),
          a2 \in (IF ~Truthy(title) /\ interactive THEN PostTitles \ { PyStr(<< >>) }
                   ELSE { PyNone }),
          a3 \in (IF message = PyNone /\ interactive THEN PostMessages ELSE { PyNone }) :
         /\ call' = [op |-> "new", files |-> PostFiles, title |-> title,
                     message |-> message, filename |-> filename,
                     interactive |-> interactive, answers |-> << a1, a2, a3 >>]
         /\ ret' = new(PostFiles, title, message, filename, interactive,
                       << a1, a2, a3 >>, Now)

\* the run ends
Exit ==
  /\ call # NoCall
  /\ call' = NoCall
  /\ ret' = NoRet

Next ==
  \/ CanonicalEndorsementString
  \/ CanonicalFeedString
  \/ SignEndorsement
  \/ VerifyEndorsementSignature
  \/ SignFeedItem
  \/ VerifyFeedSignature
  \/ GenerateRss
  \/ Build
  \/ ParseVcard
  \/ TrustQuery
  \/ BuildVcardContent
  \/ ParseBuiltVcard
  \/ LoadPrivateKeyPem
  \/ CreateStateContent
  \/ CreateState
  \/ New
  \/ Exit

Spec == Init /\ [][Next]_vars

(***************************************************************************)
(* The properties checked.                                                 *)
(***************************************************************************)
VerifyOps == {"verify_endorsement_signature", "verify_feed_signature"}

\* the canonical bytes the two documented layouts prescribe, built field by
\* field
EndorsementBytes(k) == Utf8Encode(<< "e", "n", "d", "o", "r", "s", "e", ":" >>) \o Utf8Encode(k)

FeedItemBytes(d, t, s) ==
  Utf8Encode(d) \o << 10 >> \o Utf8Encode(t) \o << 10 >> \o Utf8Encode(s)

ExampleFeedBytes ==
   << 50, 48, 50, 53, 45, 48, 49, 45, 48, 49, 84, 48, 48, 58, 48, 48, 58, 48, 48,
      90, 10, 72, 101, 108, 108, 111, 10, 87, 111, 114, 108, 100 >>

\* the verifier's key and message are those the signature was made with
SameKeyAndMessage ==
  /\ call.seed = call.signer
  /\ IF call.op = "verify_endorsement_signature"
     THEN EndorsementBytes(call.endorsee_key_b64) = EndorsementBytes(call.signed)
     ELSE FeedItemBytes(call.pub_date, call.title, call.description_plain)
            = FeedItemBytes(call.signed[1], call.signed[2], call.signed[3])

\* C1: canonical_feed_string returns the UTF-8 bytes of the date, one line
\* feed, the title, one line feed and the description, and nothing else; the
\* documented example gives its documented bytes.
C1_CanonicalFeedString ==
  call.op = "canonical_feed_string" =>
    /\ ret = Return(FeedItemBytes(call.pub_date, call.title, call.description_plain))
    /\ (/\ call.pub_date = << "2", "0", "2", "5", "-", "0", "1", "-", "0", "1", "T", "0", "0", ":", "0", "0", ":", "0", "0", "Z" >>
        /\ call.title = << "H", "e", "l", "l", "o" >>
        /\ call.description_plain = << "W", "o", "r", "l", "d" >>)
       => ret.value = ExampleFeedBytes

C1_Witness ==
  /\ call.op = "canonical_feed_string"
  /\ call.pub_date = << "2", "0", "2", "5", "-", "0", "1", "-", "0", "1", "T", "0", "0", ":", "0", "0", ":", "0", "0", "Z" >>
  /\ call.title = << "H", "e", "l", "l", "o" >>
  /\ call.description_plain = << "W", "o", "r", "l", "d" >>
  /\ ret.value = ExampleFeedBytes

\* C2: canonical_endorsement_string returns the bytes of "endorse:" followed
\* by the UTF-8 bytes of the identifier, with no line feed after them.
C2_CanonicalEndorsementString ==
  call.op = "canonical_endorsement_string" =>
    /\ ret = Return(EndorsementBytes(call.endorsee_key_b64))
    /\ SubSeq(ret.value, 1, 8) = << 101, 110, 100, 111, 114, 115, 101, 58 >>
    /\ ret.value[Len(ret.value)] # 10

C2_Witness ==
  /\ call.op = "canonical_endorsement_string"
  /\ call.endorsee_key_b64 = << "A", "A", "A", "A" >>
  /\ ret.value = << 101, 110, 100, 111, 114, 115, 101, 58, 65, 65, 65, 65 >>

\* C3: a signature made with a keypair's private key verifies under that
\* keypair's public key over the same inputs, for endorsements and for feed
\* items.
C3_SignThenVerify ==
  (/\ call.op \in VerifyOps
   /\ call.variant = "genuine"
   /\ call.seed = call.signer
   /\ call.op = "verify_endorsement_signature" => call.endorsee_key_b64 = call.signed
   /\ call.op = "verify_feed_signature" =>
        << call.pub_date, call.title, call.description_plain >> = call.signed)
  => ret = Return(TRUE)

C3_Witness ==
  /\ call.op = "verify_feed_signature"
  /\ call.variant = "genuine"
  /\ call.seed = call.signer
  /\ << call.pub_date, call.title, call.description_plain >> = call.signed
  /\ call.description_plain = << "U+00E9", "U+20AC" >>
  /\ ret = Return(TRUE)

\* C4: a genuine signature checked against another key, or against a
\* canonical message that differs in some byte, is rejected with False.
C4_WrongKeyOrMessageRejected ==
  (/\ call.op \in VerifyOps
   /\ call.variant = "genuine"
   /\ ~SameKeyAndMessage)
  => ret = Return(FALSE)

C4_Witness ==
  /\ call.op = "verify_feed_signature"
  /\ call.variant = "genuine"
  /\ call.seed = call.signer
  /\ call.signed = << << "2", "0", "2", "5", "-", "0", "1", "-", "0", "1", "T", "0", "0", ":", "0", "0", ":", "0", "0", "Z" >>, << "H", "e", "l", "l", "o" >>, << "W", "o", "r", "l", "d" >> >>
  /\ call.pub_date = << "2", "0", "2", "5", "-", "0", "1", "-", "0", "1", "T", "0", "0", ":", "0", "0", ":", "0", "0", "Z" >>
  /\ call.title = << "H", "e", "l", "l", "p" >>
  /\ call.description_plain = << "W", "o", "r", "l", "d" >>
  /\ ret = Return(FALSE)

\* C5: a well-formed signature that does not verify (forged, made with
\* another key, or made over another message) makes the verify functions
\* return False; they raise nothing.
C5_InvalidSignatureIsFalseNotRaise ==
  (/\ call.op \in VerifyOps
   /\ \/ call.variant \in {"forged", "zeros"}
      \/ call.variant = "genuine" /\ ~SameKeyAndMessage)
  => /\ ret.kind = "return"
     /\ ret.value = FALSE

C5_Witness ==
  /\ call.op = "verify_endorsement_signature"
  /\ call.variant = "forged"
  /\ call.seed = call.signer
  /\ call.endorsee_key_b64 = call.signed
  /\ ret = Return(FALSE)

\* C6: a structurally malformed signature (odd-length hex, non-hex
\* characters, wrong byte length) makes verification end with
\* MalformedSignatureError, not with the result False.
C6_MalformedSignatureRaises ==
  (/\ call.op \in VerifyOps
   /\ call.variant \in MalformedVariants)
  => ret = Raise("MalformedSignatureError")

\* the vCard text of the call has a line of this kind for this identifier
HasLine(kind, key_b64) ==
  \E i \in 1..Len(call.lines) :
    call.lines[i].kind = kind /\ call.lines[i].value = key_b64

\* C7: when the parsed text has a KEY line and a REVKEY line for the same
\* identifier, in either order and with any PREF, a trust query for that
\* identifier answers "revoked".
C7_RevocationPrecedence ==
  (/\ call.op = "trust_query"
   /\ HasLine(<< "K", "E", "Y" >>, call.key_b64)
   /\ HasLine(<< "R", "E", "V", "K", "E", "Y" >>, call.key_b64))
  => ret = Return("revoked")

\* the documented example of C7, in both orders of its two lines: the part
\* of the claim the parser does meet
C7_Example ==
  (/\ call.op = "trust_query"
   /\ call.key_b64 = << "A", "A", "A", "A" >>
   /\ \/ call.text = << "K", "E", "Y", ";", "A", "L", "G", "=", "e", "d", "2", "5", "5", "1",
       "9", ";", "P", "R", "E", "F", "=", "1", ";", "E", "N", "C", "O", "D", "I", "N", "G",
           "=", "b", ":", "A", "A", "A", "A", "\n" >>
              \o << "R", "E", "V", "K", "E", "Y", ";", "R", "E", "A", "S", "O", "N", "=", "c",
                  "o", "m", "p", "r", "o", "m", "i", "s", "e", "d", ":", "A", "A", "A", "A", "\n" >>
      \/ call.text = << "R", "E", "V", "K", "E", "Y", ";", "R", "E", "A", "S", "O", "N", "=",
          "c", "o", "m", "p", "r", "o", "m", "i", "s", "e", "d", ":", "A", "A", "A", "A", "\n" >>
              \o << "K", "E", "Y", ";", "A", "L", "G", "=", "e", "d", "2", "5", "5", "1", "9",
                  ";", "P", "R", "E", "F", "=", "1", ";", "E", "N", "C", "O", "D", "I", "N",
                      "G", "=", "b", ":", "A", "A", "A", "A", "\n" >>)
  => ret = Return("revoked")

\* C8: with no signing context the feed is produced, no item has a
\* signature extension and nothing is raised, for any number of items; and
\* so for the build command when no key file is given.
C8_UnsignedFeedProduced ==
  (\/ call.op = "generate_rss" /\ call.sign = PyNone
   \/ call.op = "build" /\ call.sign_priv = PyNone /\ call.sign_pub = PyNone)
  => /\ ret.kind = "return"
     /\ Len(ret.value.items) = Len(IF call.op = "build" THEN call.states ELSE call.items)
     /\ \A i \in 1..Len(ret.value.items) : ret.value.items[i].extensions = << PyNone >>

\* the calls of generate_rss that returned a feed signed with a context
SignedFeed ==
  /\ call.op = "generate_rss"
  /\ call.sign # PyNone
  /\ ret.kind = "return"

\* C9: the date text that was signed is the date text emitted with the
\* item: a verifier who rebuilds the canonical bytes from the emitted date,
\* title and description of a signed item verifies its signature.
C9_EmittedItemVerifies ==
  SignedFeed =>
    \A i \in 1..Len(ret.value.items) :
      LET emitted == ret.value.items[i]
      IN  emitted.extensions # << PyNone >> =>
            verify_feed_signature(public_key(call.sign.key), PyStr(emitted.pubDate),
                                  emitted.title, emitted.description,
                                  emitted.extensions[1].signature_value)
              = Return(TRUE)

\* the bytes signed for an item of the call: its own date as str() gives
\* it, its own title and its own content
OwnItemBytes(item) == FeedItemBytes(DatetimeStr(item.date), item.title.v, item.content.v)

\* C10: with a private key and a key identifier in the signing context,
\* every item, at any position, carries a signature element whose content
\* is the hex signature over that item's own date, title and description,
\* not those of another item, and whose keyId is the context's identifier.
C10_EveryItemSignedOverItself ==
  (call.op = "generate_rss" /\ call.sign # PyNone) =>
    /\ ret.kind = "return"
    /\ Len(ret.value.items) = Len(call.items)
    /\ \A i \in 1..Len(call.items) :
         LET ext == ret.value.items[i].extensions
         IN  /\ ext # << PyNone >>
             /\ ext[1].keyId = call.sign.id.v
             /\ IsHexText(ext[1].signature_value)
             /\ \A j \in 1..Len(call.items) :
                  (Ed25519Verify(public_key(call.sign.key),
                                 HexBytes(ext[1].signature_value),
                                 OwnItemBytes(call.items[j])) = Return(PyNone))
                    <=> (OwnItemBytes(call.items[j]) = OwnItemBytes(call.items[i]))

C10_Witness ==
  /\ SignedFeed
  /\ Len(call.items) = 2
  /\ call.items[1].title # call.items[2].title
  /\ call.items[1].date # call.items[2].date
  /\ call.sign.id.v # public_key_to_b64der(public_key(call.sign.key))
  /\ ret.value.items[2].extensions[1].keyId = call.sign.id.v

(***************************************************************************)
(* The properties of parse_vcard.  The text of a call is described by its  *)
(* lines (call.lines), each with its property name, parameters, separator  *)
(* and value.                                                              *)
(***************************************************************************)
KEY == << "K", "E", "Y" >>

REVKEY == << "R", "E", "V", "K", "E", "Y" >>

ENDORSE == << "X", "-", "E", "N", "D", "O", "R", "S", "E" >>

\* the lines of the call of one kind, in the order of the text
LinesOfKind(kind) == SelectSeq(call.lines, LAMBDA l : l.kind = kind)

\* the line has the parameter
HasParam(l, name) == \E i \in 1..Len(l.params) : l.params[i][1] = name

\* the text of a parameter of a line, as it stands in the line
ParamOf(l, name) == l.params[CHOOSE i \in 1..Len(l.params) : l.params[i][1] = name][2]

\* the parameter as an optional str
OptParam(l, name) == IF HasParam(l, name) THEN PyStr(ParamOf(l, name)) ELSE PyNone

\* C11: parse_vcard returns a Profile for every text; a line of a
\* recognised kind with no ':' separator does not abort the parse.
C11_ParseNeverRaises ==
  call.op = "parse_vcard" => ret.kind = "return"

\* the KEY lines of the call whose PREF is not a number
NonNumericPrefLines ==
  SelectSeq(LinesOfKind(KEY),
            LAMBDA l : HasParam(l, << "P", "R", "E", "F" >>) /\ ~IsIntText(ParamOf(l, << "P", "R", "E", "F" >>)))

\* C12: a KEY line with a non-numeric PREF does not fail the parse: a
\* Profile is returned, and the key of that line is in public_keys with no
\* preference rank.
C12_NonNumericPrefTolerated ==
  (/\ call.op = "parse_vcard"
   /\ NonNumericPrefLines # << >>
   /\ \A i \in 1..Len(call.lines) : call.lines[i].sep = << ":" >>)
  => /\ ret.kind = "return"
     /\ \A i \in 1..Len(NonNumericPrefLines) :
          \E j \in 1..Len(ret.value.public_keys) :
            /\ ret.value.public_keys[j].key_b64 = NonNumericPrefLines[i].value
            /\ ret.value.public_keys[j].pref = PyNone

\* the lines of the call without the lines of an unknown kind
KnownLines == SelectSeq(call.lines, LAMBDA l : l.kind # << "X", "-", "U", "N", "K", "N", "O", "W", "N" >>)

\* C13: a line of an unknown kind is ignored: the parse of the text ends as
\* the parse of the text without that line ends, with the same display
\* name, photo, public keys, endorsements and revocations, or with the same
\* exception; the line raises nothing of its own.
C13_UnknownLineIgnored ==
  (/\ call.op = "parse_vcard"
   /\ KnownLines # call.lines)
  => LET without == parse_vcard(VcardText(KnownLines))
     IN  /\ ret.kind = without.kind
         /\ ret.kind = "raise" => ret = without
         /\ ret.kind = "return" =>
              /\ ret.value.fn = without.value.fn
              /\ ret.value.photo = without.value.photo
              /\ ret.value.capabilities = without.value.capabilities
              /\ ret.value.public_keys = without.value.public_keys
              /\ ret.value.endorsements = without.value.endorsements
              /\ ret.value.revocations = without.value.revocations
              /\ \A i \in 1..Len(ret.value.endorsements) :
                   ret.value.endorsements[i].endorsee_key_b64 # << "b", "a", "r" >>

C13_Witness ==
  /\ call.op = "parse_vcard"
  /\ Len(call.lines) = 2
  /\ call.lines[1].kind = << "X", "-", "U", "N", "K", "N", "O", "W", "N" >>
  /\ call.lines[2].kind = KEY
  /\ ret.kind = "return"
  /\ Len(ret.value.public_keys) = 1
  /\ ret.value.endorsements = << >>
  /\ ret.value.revocations = << >>
  /\ ret.value.fn = PyNone

\* the PublicKey a KEY line stands for: its ALG in lower case, its value
\* and its PREF as a number
KeyOfLine(l) ==
  [alg |-> StrLower(IF HasParam(l, << "A", "L", "G" >>) THEN ParamOf(l, << "A", "L", "G" >>) ELSE << >>),
   key_b64 |-> l.value,
   pref |-> IF HasParam(l, << "P", "R", "E", "F" >>) THEN PyInt(DigitsValue(ParamOf(l, << "P", "R", "E", "F" >>))) ELSE PyNone]

\* the line is a KEY line with a ':' separator and, if any, a numeric PREF
WellFormedKeyLine(l) ==
  /\ l.kind = KEY
  /\ l.sep = << ":" >>
  /\ HasParam(l, << "P", "R", "E", "F" >>) => IsIntText(ParamOf(l, << "P", "R", "E", "F" >>))

\* C14: one PublicKey is appended per well-formed KEY line, duplicates
\* kept: public_keys has as many entries as the text has KEY lines, the
\* i-th with the algorithm, identifier and PREF of the i-th KEY line; a
\* text of well-formed KEY lines only is parsed.
C14_OneEntryPerKeyLine ==
  call.op = "parse_vcard" =>
    /\ (\A i \in 1..Len(call.lines) : WellFormedKeyLine(call.lines[i]))
         => ret.kind = "return"
    /\ (/\ ret.kind = "return"
        /\ \A i \in 1..Len(LinesOfKind(KEY)) : WellFormedKeyLine(LinesOfKind(KEY)[i]))
         => /\ Len(ret.value.public_keys) = Len(LinesOfKind(KEY))
            /\ \A i \in 1..Len(LinesOfKind(KEY)) :
                 ret.value.public_keys[i] = KeyOfLine(LinesOfKind(KEY)[i])

C14_Witness ==
  /\ call.op = "parse_vcard"
  /\ Len(call.lines) = 2
  /\ call.lines[1] = call.lines[2]
  /\ call.lines[1].kind = KEY
  /\ ret.kind = "return"
  /\ Len(ret.value.public_keys) = 2
  /\ ret.value.public_keys[1] = ret.value.public_keys[2]
  /\ ret.value.public_keys[2].key_b64 = << "A", "A", "A", "A" >>
  /\ ret.value.public_keys[2].pref = PyInt(1)

\* a line of one of the two documented forms
\* REVKEY;REASON=<text>;DATE=<date>:<compact-text> and
\* X-ENDORSE;SIG=<hex>;DATE=<date>;CONFIDENCE=<label>:<compact-text>
DocumentedForm(l) ==
  /\ l.sep = << ":" >>
  /\ \/ /\ l.kind = REVKEY
        /\ HasParam(l, << "R", "E", "A", "S", "O", "N" >>)
        /\ HasParam(l, << "D", "A", "T", "E" >>)
     \/ /\ l.kind = ENDORSE
        /\ HasParam(l, << "S", "I", "G" >>)
        /\ HasParam(l, << "D", "A", "T", "E" >>)
        /\ HasParam(l, << "C", "O", "N", "F", "I", "D", "E", "N", "C", "E" >>)

\* C15: for every line REVKEY;REASON=..;DATE=..:id the parse has a
\* RevokedKey with exactly that id, reason and date, and for every line
\* X-ENDORSE;SIG=..;DATE=..;CONFIDENCE=..:id an Endorsement with that id,
\* signature, date and confidence, whatever the date text is.
C15_DocumentedFormsParsed ==
  (/\ call.op = "parse_vcard"
   /\ ret.kind = "return")
  => /\ \A i \in 1..Len(LinesOfKind(REVKEY)) :
          LET l == LinesOfKind(REVKEY)[i]
          IN  DocumentedForm(l) =>
                ret.value.revocations[i] =
                  [key_b64 |-> l.value, reason |-> PyStr(ParamOf(l, << "R", "E", "A", "S", "O", "N" >>)),
                   date |-> PyStr(ParamOf(l, << "D", "A", "T", "E" >>))]
     /\ \A i \in 1..Len(LinesOfKind(ENDORSE)) :
          LET l == LinesOfKind(ENDORSE)[i]
          IN  DocumentedForm(l) =>
                ret.value.endorsements[i] =
                  [endorsee_key_b64 |-> l.value, signature_hex |-> ParamOf(l, << "S", "I", "G" >>),
                   date |-> PyStr(ParamOf(l, << "D", "A", "T", "E" >>)),
                   confidence |-> PyStr(ParamOf(l, << "C", "O", "N", "F", "I", "D", "E", "N", "C", "E" >>))]

C17_EmptySignatureNotFailed ==
  (/\ call.op \in VerifyOps
   /\ call.variant = "empty")
  => /\ ret.kind = "return"
     /\ ret.value # FALSE

\* the value of the last line of a kind, or None when the text has none
LastValue(kind) ==
  IF LinesOfKind(kind) = << >> THEN PyNone
  ELSE PyStr(LinesOfKind(kind)[Len(LinesOfKind(kind))].value)

\* the text has several FN: lines or several PHOTO: lines
SeveralNameLines ==
  \/ Len(LinesOfKind(<< "F", "N" >>)) >= 2
  \/ Len(LinesOfKind(<< "P", "H", "O", "T", "O" >>)) >= 2

\* C18: with several FN: lines or several PHOTO: lines in the text,
\* whatever lies between them, nothing is raised and the display name and
\* the photo are the values of the last FN: line and the last PHOTO: line.
C18_LastNameLineWins ==
  (/\ call.op = "parse_vcard"
   /\ SeveralNameLines)
  => /\ ret.kind = "return"
     /\ ret.value.fn = LastValue(<< "F", "N" >>)
     /\ ret.value.photo = LastValue(<< "P", "H", "O", "T", "O" >>)

\* the part of C18 the parser does meet: when the other lines parse, the
\* last FN: line and the last PHOTO: line win
C18_LastWinsWhenParsed ==
  (/\ call.op = "parse_vcard"
   /\ SeveralNameLines
   /\ ret.kind = "return")
  => /\ ret.value.fn = LastValue(<< "F", "N" >>)
     /\ ret.value.photo = LastValue(<< "P", "H", "O", "T", "O" >>)

(***************************************************************************)
(* The properties of build_vcard_content.                                  *)
(***************************************************************************)
\* the lines of the text returned
EmittedLines == SplitLines(ret.value)

\* C19: no line is emitted with an empty value: every line returned has
\* some text after its ':' separator, for every combination of fields,
\* custom attributes and keys.
C19_NoEmptyValueLine ==
  (/\ call.op = "build_vcard_content"
   /\ ret.kind = "return")
  => \A i \in 1..Len(EmittedLines) :
       /\ Contains(EmittedLines[i], ":")
       /\ SplitOnce(EmittedLines[i], ":")[2] # << >>

\* the part of C19 the builder does meet: a standard field that is None or
\* the empty str gives no line
C19_EmptyFieldsOmitted ==
  (/\ call.op = "build_vcard_content"
   /\ ret.kind = "return"
   /\ call.custom_attributes \in { PyNone, PyDict(<< >>) }
   /\ call.keys \in { PyNone, PyList(<< >>) }
   /\ \A a \in FieldArgs : call.fields[a] \in { PyNone, PyStr(<< >>) })
  => EmittedLines = << << "B", "E", "G", "I", "N", ":", "V", "C", "A", "R", "D" >>, << "V", "E", "R", "S", "I", "O", "N", ":", "4", ".", "0" >>, << "E", "N", "D", ":", "V", "C", "A", "R", "D" >> >>

\* C20: build_vcard_content returns the text and raises nothing, for every
\* list of keys that are dicts with 'alg', 'key_b64' and an optional
\* 'pref'.
C20_BuildNeverFails ==
  call.op = "build_vcard_content" => ret.kind = "return"

(***************************************************************************)
(* The properties of key loading and of the build command.                 *)
(***************************************************************************)
\* the file the build command reads the private key from, and the file it
\* reads the public key from: the option, or the answer to the prompt
BuildPrivFile == IF call.sign_priv # PyNone THEN call.sign_priv ELSE call.answers[1]

BuildPubFile == IF call.sign_pub # PyNone THEN call.sign_pub ELSE call.answers[2]

\* the build command got as far as loading its two key files
BuildLoadsKeys ==
  /\ call.op = "build"
  /\ BuildPrivFile # PyNone
  /\ BuildPubFile # PyNone
  /\ BuildPrivFile.v \in DOMAIN KeyFiles
  /\ BuildPubFile.v \in DOMAIN KeyFiles

\* C21: loading a private key whose container holds an algorithm other
\* than Ed25519 ends with UnsupportedKeyAlgorithmError and returns no key
\* handle, in load_private_key_pem and so in the build command that calls
\* it.
C21_OtherAlgorithmRefused ==
  /\ (/\ call.op = "load_private_key_pem"
      /\ call.pem.kind = "PRIVATE KEY"
      /\ call.pem.alg # "ed25519")
     => ret = Raise("UnsupportedKeyAlgorithmError")
  /\ (/\ BuildLoadsKeys
      /\ KeyFiles[BuildPrivFile.v].kind = "PRIVATE KEY"
      /\ KeyFiles[BuildPrivFile.v].alg # "ed25519"
      /\ KeyFiles[BuildPubFile.v].kind = "PUBLIC KEY")
     => ret = Raise("UnsupportedKeyAlgorithmError")

\* C22: canonical_feed_string is injective: items that differ in date,
\* title or description have different canonical bytes, also when a text
\* holds a line feed, so a signature made over one item is not valid over
\* another.
C22_CanonicalFeedStringInjective ==
  /\ call.op = "canonical_feed_string" =>
       \A d \in PubDateTexts, t \in Titles, s \in Descriptions :
         << d, t, s >> # << call.pub_date, call.title, call.description_plain >>
           => canonical_feed_string(PyStr(d), PyStr(t), PyStr(s)) # ret.value
  /\ (/\ call.op = "verify_feed_signature"
      /\ call.variant = "genuine"
      /\ << call.pub_date, call.title, call.description_plain >> # call.signed)
     => ret = Return(FALSE)

\* the part of C22 the code does meet: items whose dates and titles hold no
\* line feed have different canonical bytes when they differ
C22_InjectiveWithoutLineFeed ==
  call.op = "canonical_feed_string" =>
    \A d \in PubDateTexts, t \in Titles, s \in Descriptions :
      (/\ << d, t, s >> # << call.pub_date, call.title, call.description_plain >>
       /\ ~Contains(t, "\n")
       /\ ~Contains(call.title, "\n"))
        => canonical_feed_string(PyStr(d), PyStr(t), PyStr(s)) # ret.value

\* C23: the feed's own title and description are those the caller passed,
\* not those of an item, after generate_rss has gone over any list of items
\* (called directly or by the build command).
C23_FeedArgumentsKept ==
  /\ (call.op = "generate_rss" /\ ret.kind = "return")
       => /\ ret.value.title = call.title
          /\ ret.value.description = call.description
  /\ (call.op = "build" /\ ret.kind = "return")
       => /\ ret.value.title = FeedTitle
          /\ ret.value.description = FeedDescription

\* the part of C23 the code does meet: with no item the loop body never
\* runs and the feed has the caller's title and description
C23_KeptWithoutItems ==
  (call.op = "generate_rss" /\ call.items = << >>)
    => /\ ret.kind = "return"
       /\ ret.value.title = call.title
       /\ ret.value.description = call.description

(***************************************************************************)
(* The properties of creating a post.                                      *)
(***************************************************************************)
\* C24: _create_state_content returns the complete text of the new file
\* (the front matter with the non-empty title and date, then the message);
\* create_state with a destination that does not exist ends with that text
\* written to the destination; with a destination that exists it exits and
\* leaves the file as it was.
C24_PostCreated ==
  /\ call.op = "_create_state_content"
       => ret = Return(PyStr(FileContent(call.title, call.message, call.date)))
  /\ (call.op = "create_state" /\ call.destination \notin DOMAIN call.files)
       => /\ ret.kind = "return"
          /\ ret.files = DictPut(call.files, call.destination,
                                  FileContent(call.title, call.message, call.date))
  /\ (call.op = "create_state" /\ call.destination \in DOMAIN call.files)
       => /\ ret.kind = "raise"
          /\ ret.exc = "Exit"
          /\ ret.files = call.files

\* the part of C24 the code does meet: an existing destination ends the
\* call with Exit and the disk as it was
C24_ExistingFileKept ==
  (call.op \in {"create_state", "new"} /\ ret.kind = "raise" /\ ret.exc = "Exit")
    => ret.files = call.files

\* C25: in a feed the build command produced with signing, the keyId of
\* every item's signature names the public key of the private key that
\* made the signature: the signature verifies under the key whose compact
\* identifier is the keyId.
C25_KeyIdNamesSigningKey ==
  (/\ BuildLoadsKeys
   /\ ret.kind = "return")
  => \A i \in 1..Len(ret.value.items) :
       LET ext == ret.value.items[i].extensions[1]
           signer == load_private_key_pem(KeyFiles[BuildPrivFile.v]).value
       IN  /\ ext # PyNone
           /\ ext.keyId = public_key_to_b64der(public_key(signer))
           /\ \E k \in Seeds :
                /\ public_key_to_b64der(Ed25519PublicKey(k)) = ext.keyId
                /\ Ed25519Verify(Ed25519PublicKey(k), HexBytes(ext.signature_value),
                                 OwnItemBytes(call.states[i])) = Return(PyNone)

\* the part of C25 the code does meet: when the two files are those of one
\* keypair, the keyId names the key that signed
C25_MatchingFilesAgree ==
  (/\ BuildLoadsKeys
   /\ ret.kind = "return"
   /\ \E k \in Seeds : BuildPrivFile.v = PrivPath(k) /\ BuildPubFile.v = PubPath(k))
  => \A i \in 1..Len(ret.value.items) :
       LET ext == ret.value.items[i].extensions[1]
           signer == load_private_key_pem(KeyFiles[BuildPrivFile.v]).value
       IN  /\ ext # PyNone
           /\ ext.keyId = public_key_to_b64der(public_key(signer))
           /\ Ed25519Verify(public_key(signer), HexBytes(ext.signature_value),
                            OwnItemBytes(call.states[i])) = Return(PyNone)

\* the parse put back the keys it was built from: as many public keys in
\* the same order, each with the lower-cased alg, the key text and the pref
\* of its key, and neither endorsements nor revocations
KeysComeBack ==
  /\ ret.kind = "return"
  /\ Len(ret.value.public_keys) = Len(call.keys)
  /\ \A i \in 1..Len(call.keys) :
       ret.value.public_keys[i] = [alg |-> StrLower(call.keys[i].alg.v),
                                   key_b64 |-> call.keys[i].key_b64.v,
                                   pref |-> call.keys[i].pref]
  /\ ret.value.endorsements = << >>
  /\ ret.value.revocations = << >>

\* C26: key lines round-trip through builder and parser: for every list of
\* keys with alg, key_b64, pref and encoding whose texts have no ':', ';' or
\* line break, parse_vcard(build_vcard_content(keys=keys)) has the keys'
\* lower-cased alg, key_b64 and integer pref in the same order, no
\* endorsements and no revocations
C26_KeyLinesRoundTrip ==
  call.op = "parse_vcard(build_vcard_content)" => KeysComeBack

\* a key whose pref is an int and not a bool, and whose key text does not
\* end with white space
PlainKey(key) ==
  /\ key.pref.t = "int"
  /\ key.key_b64.v = << >> \/ ~IsSpace(key.key_b64.v[Len(key.key_b64.v)])

\* C26, amended: the round trip holds for every list of keys whose pref is
\* an int and not a bool and whose key_b64 does not end with white space
C26_PlainKeyLinesRoundTrip ==
  (/\ call.op = "parse_vcard(build_vcard_content)"
   /\ \A i \in 1..Len(call.keys) : PlainKey(call.keys[i]))
  => KeysComeBack

\* two different keys came back, one with an upper-case alg and one with a
\* negative pref and white space at the start of its key text
C26_Witness ==
  /\ call.op = "parse_vcard(build_vcard_content)"
  /\ Len(call.keys) = 2
  /\ \A i \in 1..2 : PlainKey(call.keys[i])
  /\ call.keys[1].alg.v # StrLower(call.keys[1].alg.v)
  /\ call.keys[2].pref.v < 0
  /\ IsSpace(call.keys[2].key_b64.v[1])
  /\ ret.kind = "return"
  /\ ret.value.public_keys[1].alg = StrLower(call.keys[1].alg.v)
  /\ ret.value.public_keys[2].pref = call.keys[2].pref
  /\ ret.value.public_keys[2].key_b64 = call.keys[2].key_b64.v

=============================================================================
